---- MODULE Spec2Model ----
(***************************************************************************)
(* Model of rpc/contracts.go: the contract and big-map query methods of    *)
(* rpc.Client.  Every method formats a request path, hands a fresh decode  *)
(* target to Client.Get and maps Get's error and the decoded target into   *)
(* its typed result.                                                       *)
(*                                                                         *)
(* A call is modelled in three steps so that calls of several callers      *)
(* interleave: the method runs up to its call of Get (one action per       *)
(* method), the transport completes the request (TransportGet), and the    *)
(* method runs from Get's return to its own return (Return).               *)
(*                                                                         *)
(* Strings that the code only formats into a path are TLA+ strings; a path *)
(* is the sequence of its "/"-separated segments.  The balance string,     *)
(* which the code parses, is a sequence of one-character strings.  An      *)
(* int64 is a record [neg, mag] with mag its decimal digits, since the     *)
(* values at the int64 limits do not fit the model checker's integers.     *)
(***************************************************************************)
EXTENDS Integers, Sequences, FiniteSets, TLC

\* ------------------------------------------------------------------ bounds

\* Number of callers that may use the client at the same time.
NumCallers == 2

\* Number of non-zero block heights, and of non-zero big-map ids, the callers pass.
MaxHeights == 1

MaxBigmaps == 1

\* ------------------------------------------------------- decimal arithmetic

DigitChars == <<"0", "1", "2", "3", "4", "5", "6", "7", "8", "9">>

IsDigit(c) == \E i \in 1..10 : DigitChars[i] = c

DigitVal(c) == (CHOOSE i \in 1..10 : DigitChars[i] = c) - 1

\* A digit sequence without its leading zeros; zero is the empty sequence.
RECURSIVE StripZeros(_)
StripZeros(ds) ==
    IF ds = <<>> THEN <<>>
    ELSE IF Head(ds) = 0 THEN StripZeros(Tail(ds)) ELSE ds

\* a < b for two digit sequences of the same length.
RECURSIVE LexLess(_, _)
LexLess(a, b) ==
    IF a = <<>> THEN FALSE
    ELSE IF Head(a) # Head(b) THEN Head(a) < Head(b)
    ELSE LexLess(Tail(a), Tail(b))

\* a < b for two magnitudes (digit sequences without leading zeros).
MagLess(a, b) ==
    \/ Len(a) < Len(b)
    \/ Len(a) = Len(b) /\ LexLess(a, b)

\* 1<<64 - 1, the largest uint64.
MaxUint64 == <<1,8,4,4,6,7,4,4,0,7,3,7,0,9,5,5,1,6,1,5>>

\* 1<<63, the cutoff of a 64 bit signed integer.
Cutoff64 == <<9,2,2,3,3,7,2,0,3,6,8,5,4,7,7,5,8,0,8>>

\* 1<<63 - 1, the largest int64.
MaxInt64 == <<9,2,2,3,3,7,2,0,3,6,8,5,4,7,7,5,8,0,7>>

\* An int64 value; zero has no sign.
Int64(neg, mag) == [k |-> "int64", neg |-> neg /\ mag # <<>>, mag |-> mag]

Zero64 == Int64(FALSE, <<>>)

\* ------------------------------------------------------------------ errors

NilErr == [k |-> "nil"]

\* The errors Client.Get returns while the context is live: a network error, a
\* non-2xx status, a body that does not decode.
LiveTransportErrors ==
    { [k |-> "transport", e |-> "connection refused"],
      [k |-> "transport", e |-> "status 404"],
      [k |-> "transport", e |-> "json: cannot unmarshal"] }

\* The error Client.Get returns once the context is cancelled.
ErrCanceled == [k |-> "transport", e |-> "context canceled"]

\* strconv's *NumError for function fn, input s and cause e.
NumError(fn, s, e) == [k |-> "NumError", Func |-> fn, Num |-> s, Err |-> e]

\* ------------------------------------------------------------ strconv.ParseInt

\* The digit loop of strconv.ParseUint(s, 10, 64) with n accumulated so far:
\* a byte that is no digit of the base ends it with a syntax error, and the
\* first digit that takes n past the largest uint64 ends it with a range error
\* and the largest uint64, whatever bytes follow.
RECURSIVE ParseUintLoop(_, _)
ParseUintLoop(s, n) ==
    IF s = <<>> THEN [n |-> n, err |-> "nil"]
    ELSE IF ~IsDigit(Head(s)) THEN [n |-> <<>>, err |-> "ErrSyntax"]
    ELSE LET n1 == StripZeros(Append(n, DigitVal(Head(s))))
         IN  IF MagLess(MaxUint64, n1)
             THEN [n |-> MaxUint64, err |-> "ErrRange"]
             ELSE ParseUintLoop(Tail(s), n1)

ParseUint(s) ==
    IF s = <<>> THEN [n |-> <<>>, err |-> "ErrSyntax"]
    ELSE ParseUintLoop(s, <<>>)

\* strconv.ParseInt(s, 10, 64) as GetContractBalance calls it: the empty string
\* and a syntax error of ParseUint return 0; a magnitude out of the int64 range
\* (ParseUint's range error included) returns the nearest int64 limit with a
\* range error.
ParseInt(s) ==
    LET neg  == s # <<>> /\ Head(s) = "-"
        body == IF s # <<>> /\ Head(s) \in {"+", "-"} THEN Tail(s) ELSE s
        u    == ParseUint(body)
    IN  IF s = <<>> \/ u.err = "ErrSyntax"
        THEN [val |-> Zero64, err |-> NumError("ParseInt", s, "ErrSyntax")]
        ELSE IF ~neg /\ ~MagLess(u.n, Cutoff64)
        THEN [val |-> Int64(FALSE, MaxInt64), err |-> NumError("ParseInt", s, "ErrRange")]
        ELSE IF neg /\ MagLess(Cutoff64, u.n)
        THEN [val |-> Int64(TRUE, Cutoff64), err |-> NumError("ParseInt", s, "ErrRange")]
        ELSE [val |-> Int64(neg, u.n), err |-> NilErr]

\* ------------------------------------------------------------- formatting

\* strconv.FormatInt(n, 10) of a non-negative n: what %d and BlockLevel's
\* String method print.
RECURSIVE FormatNat(_)
FormatNat(n) ==
    IF n < 10 THEN DigitChars[n + 1]
    ELSE FormatNat(n \div 10) \o DigitChars[(n % 10) + 1]

FormatInt(n) == IF n < 0 THEN "-" \o FormatNat(-n) ELSE FormatNat(n)

\* -------------------------------------------------------------- arguments

Callers == 1..NumCallers

\* tezos.Address: opaque to this file, printed by %s in its canonical form.
Addrs == { [typ |-> "KT1", hash |-> "BEqzn"], [typ |-> "tz1", hash |-> "VSUr8"] }

AddrString(addr) == addr.typ \o addr.hash

\* Block heights (int64) the callers pass.
Heights == { 105 * i : i \in 0..MaxHeights }

\* Big-map ids (int64) the callers pass.
Bigmaps == { 42 * i : i \in 0..MaxBigmaps }

\* tezos.ExprHash: printed by %s.
ExprHashes == { "exprtXBtx" }

\* rpc.BlockID: the alias "head", a block level or a block hash.
Head_ == [kind |-> "alias", n |-> 0, s |-> "head"]

BlockLevel(height) == [kind |-> "level", n |-> height, s |-> ""]

BlockHash(h) == [kind |-> "hash", n |-> 0, s |-> h]

BlockIDs == {Head_, BlockHash("BLockGenesis")} \cup { BlockLevel(h) : h \in Heights }

\* BlockID.String(), which %s prints.
BlockIDString(id) == IF id.kind = "level" THEN FormatInt(id.n) ELSE id.s

\* ----------------------------------------------------------------- values

Nil(t) == [k |-> "nil", t |-> t]

\* micheline.Prim, opaque to this file.
Prim(type, v) == [k |-> "Prim", Type |-> type, v |-> v]

\* micheline.Prim{}: the zero value the decode targets start from.
ZeroPrim == Prim("PrimInt", "")

\* micheline.InvalidPrim: the sentinel returned with an error.
InvalidPrim == Prim("invalid", "")

\* The trees a body decodes to.
Prims == { Prim("PrimInt", "7"), Prim("PrimString", "hello") }

Chars(ds) == [i \in 1..Len(ds) |-> DigitChars[ds[i] + 1]]

\* The strings the balance body decodes to.
BalStrings ==
    { Chars(<<0>>), Chars(<<4,2>>), <<"-">> \o Chars(<<7>>), <<"+">> \o Chars(<<5>>),
      Chars(<<0,0,7>>), <<>>, <<"-">>, Chars(<<1,2>>) \o <<"a">>,
      Chars(MaxInt64), Chars(Cutoff64),
      <<"-">> \o Chars(Cutoff64),
      <<"-">> \o Chars(<<9,2,2,3,3,7,2,0,3,6,8,5,4,7,7,5,8,0,9>>),
      Chars(<<1,8,4,4,6,7,4,4,0,7,3,7,0,9,5,5,1,6,1,6>>),
      Chars(<<1,8,4,4,6,7,4,4,0,7,3,7,0,9,5,5,1,6,1,6>>) \o <<"x">> }

Str(cs) == [k |-> "string", v |-> cs]

ContractsVal(as) == [k |-> "Contracts", v |-> as]

ScriptVal(code) == [k |-> "Script", v |-> code]

EpType(m) == [k |-> "eptype", Entrypoints |-> m]

MapVal(f) == [k |-> "map", v |-> f]

HashesVal(hs) == [k |-> "ExprHashes", v |-> hs]

\* rpc.BigmapInfo.
BigmapInfo(kt, vt, total) ==
    [k |-> "BigmapInfo", KeyType |-> kt, ValueType |-> vt, TotalBytes |-> total]

AddrSeqs ==
    { <<>> } \cup { <<a>> : a \in Addrs } \cup { ab \in Addrs \X Addrs : ab[1] # ab[2] }

EntrypointMaps ==
    { MapVal(<<>>),
      MapVal([n \in {"default"} |-> Prim("PrimString", "hello")]),
      MapVal([n \in {"default", "mint"} |->
                 IF n = "mint" THEN Prim("PrimInt", "7") ELSE Prim("PrimString", "hello")]) }

\* What a successful Get leaves in a decode target of kind k.
Decoded(k) ==
    CASE k = "Contracts"  -> { ContractsVal(as) : as \in AddrSeqs }
      [] k = "string"     -> { Str(cs) : cs \in BalStrings }
      [] k = "Script"     -> { ScriptVal("parameter unit"), ScriptVal("parameter nat") }
      [] k = "Prim"       -> Prims
      [] k = "eptype"     -> { EpType(m) : m \in EntrypointMaps \cup {Nil("map")} }
      [] k = "ExprHashes" -> { HashesVal(<<>>), HashesVal(<<"exprtXBtx">>),
                               HashesVal(<<"exprtXBtx", "expruD4Fq">>) }
      [] k = "BigmapInfo" -> { BigmapInfo(Prim("PrimString", "hello"), Prim("PrimInt", "7"),
                                          Int64(FALSE, <<1,2,3,4,5>>)),
                               BigmapInfo(Prim("PrimInt", "7"), Prim("PrimInt", "7"), Zero64) }

\* What a failed Get may have written to a decode target of kind k before the
\* failure, besides leaving it as it was.
Partial(k) ==
    CASE k = "Contracts"  -> { ContractsVal(<<a>>) : a \in Addrs }
      [] k = "string"     -> {}
      [] k = "Script"     -> { ScriptVal("parameter") }
      [] k = "Prim"       -> { Prim("PrimSequence", "") }
      [] k = "eptype"     -> { EpType(MapVal([n \in {"default"} |-> ZeroPrim])) }
      [] k = "ExprHashes" -> { HashesVal(<<"exprtXBtx">>) }
      [] k = "BigmapInfo" -> { BigmapInfo(Prim("PrimString", "hello"), ZeroPrim, Zero64) }

Kinds == {"Contracts", "string", "Script", "Prim", "eptype", "ExprHashes", "BigmapInfo"}

\* Every body the node may answer with, per kind of decode target.
AllBodies == [k \in Kinds |-> Decoded(k)]

\* ------------------------------------------------------------------ state

VARIABLES
    pc,         \* per caller: "idle", "inflight" (inside Get), "responded" (Get has
                \* returned), "returned" (the method has returned)
    call,       \* per caller: the method called and its arguments
    frame,      \* per caller: the running method body, its path u and the address
                \* of its decode target
    mem,        \* the decode targets, by address
    resp,       \* per caller: what Get returned for this call's request
    ret,        \* per caller: what the method returned
    gets,       \* per caller: the paths this call has passed to Get, in order
    cancelled,  \* per caller: whether the call's context is cancelled
    parsed,     \* per caller: whether this call has run strconv.ParseInt
    last        \* the latest completed call of a block-reference method at a level

vars == <<pc, call, frame, mem, resp, ret, gets, cancelled, parsed, last>>

NoCall == [m |-> "none"]

NoFrame == [fn |-> "none"]

NoResp == [err |-> NilErr, out |-> Nil("none"), cancelled |-> FALSE]

NoRet == [val |-> Nil("none"), err |-> NilErr]

NoLast == [call |-> NoCall]

Init ==
    /\ pc = [p \in Callers |-> "idle"]
    /\ call = [p \in Callers |-> NoCall]
    /\ frame = [p \in Callers |-> NoFrame]
    /\ mem = [a \in Callers |-> Nil("none")]
    /\ resp = [p \in Callers |-> NoResp]
    /\ ret = [p \in Callers |-> NoRet]
    /\ gets = [p \in Callers |-> <<>>]
    /\ cancelled = [p \in Callers |-> FALSE]
    /\ parsed = [p \in Callers |-> FALSE]
    /\ last = NoLast

\* ------------------------------------------------------------- request paths

\* The fault of one decode target shared by all calls.
SharedLocal(p) == 1

\* The address of the decode target of caller p's running method: a local
\* variable, fresh in every call.
Local(p) == p

GetContractsPath(id) ==
    <<"chains", "main", "blocks", BlockIDString(id), "context", "contracts">>

GetContractBalancePath(id, addr) ==
    <<"chains", "main", "blocks", BlockIDString(id), "context", "contracts",
      AddrString(addr), "balance">>

GetContractScriptPath(addr) ==
    <<"chains", "main", "blocks", "head", "context", "contracts",
      AddrString(addr), "script">>

GetContractStoragePath(id, addr) ==
    <<"chains", "main", "blocks", BlockIDString(id), "context", "contracts",
      AddrString(addr), "storage">>

GetContractEntrypointsPath(addr) ==
    <<"chains", "main", "blocks", "head", "context", "contracts",
      AddrString(addr), "entrypoints">>

GetBigmapKeysPath(id, bigmap) ==
    <<"chains", "main", "blocks", BlockIDString(id), "context", "raw", "json",
      "big_maps", "index", FormatInt(bigmap), "contents">>

\* GetBigmapValue's path with a fault: the key hash is left out.
GetBigmapValuePathNoHash(id, bigmap, hash) ==
    <<"chains", "main", "blocks", BlockIDString(id), "context", "raw", "json",
      "big_maps", "index", FormatInt(bigmap), "contents">>

GetBigmapValuePath(id, bigmap, hash) ==
    <<"chains", "main", "blocks", BlockIDString(id), "context", "raw", "json",
      "big_maps", "index", FormatInt(bigmap), "contents", hash>>

GetBigmapInfoPath(id, bigmap) ==
    <<"chains", "main", "blocks", BlockIDString(id), "context", "raw", "json",
      "big_maps", "index", FormatInt(bigmap)>>

\* ------------------------------------------------------------------ results

\* The code of each method after Get has returned err, with the decode target
\* as Get left it: the value and error returned, and whether ParseInt ran.

GetContractsResult(err, contracts) ==
    IF err # NilErr
    THEN [val |-> Nil("Contracts"), err |-> err, parsed |-> FALSE]
    ELSE [val |-> contracts, err |-> NilErr, parsed |-> FALSE]

\* GetContractBalance with a fault: Get's error is not checked before the parse.
GetContractBalanceResultUnchecked(err, bal) ==
    LET r == ParseInt(IF bal.k = "string" THEN bal.v ELSE <<>>)
    IN  [val |-> r.val, err |-> r.err, parsed |-> TRUE]

GetContractBalanceResult(err, bal) ==
    IF err # NilErr
    THEN [val |-> Zero64, err |-> err, parsed |-> FALSE]
    ELSE LET r == ParseInt(IF bal.k = "string" THEN bal.v ELSE <<>>)
         IN  [val |-> r.val, err |-> r.err, parsed |-> TRUE]

GetContractScriptResult(err, s) ==
    IF err # NilErr
    THEN [val |-> Nil("Script"), err |-> err, parsed |-> FALSE]
    ELSE [val |-> s, err |-> NilErr, parsed |-> FALSE]

\* GetContractStorage with a fault: the decode target is returned with the error.
GetContractStorageResultLeaky(err, prim) ==
    [val |-> prim, err |-> err, parsed |-> FALSE]

GetContractStorageResult(err, prim) ==
    IF err # NilErr
    THEN [val |-> InvalidPrim, err |-> err, parsed |-> FALSE]
    ELSE [val |-> prim, err |-> NilErr, parsed |-> FALSE]

\* GetContractEntrypoints with a fault: the entry "default" is dropped.
GetContractEntrypointsResultDropped(err, eps) ==
    IF err # NilErr
    THEN [val |-> Nil("map"), err |-> err, parsed |-> FALSE]
    ELSE [val |-> IF eps.Entrypoints.k = "map"
                  THEN MapVal([n \in DOMAIN eps.Entrypoints.v \ {"default"} |->
                                  eps.Entrypoints.v[n]])
                  ELSE eps.Entrypoints,
          err |-> NilErr, parsed |-> FALSE]

GetContractEntrypointsResult(err, eps) ==
    IF err # NilErr
    THEN [val |-> Nil("map"), err |-> err, parsed |-> FALSE]
    ELSE [val |-> eps.Entrypoints, err |-> NilErr, parsed |-> FALSE]

\* GetBigmapKeys with a fault: the decode target is returned with the error.
GetBigmapKeysResultLeaky(err, hashes) ==
    [val |-> hashes, err |-> err, parsed |-> FALSE]

GetBigmapKeysResult(err, hashes) ==
    IF err # NilErr
    THEN [val |-> Nil("ExprHashes"), err |-> err, parsed |-> FALSE]
    ELSE [val |-> hashes, err |-> NilErr, parsed |-> FALSE]

GetBigmapValueResult(err, prim) ==
    IF err # NilErr
    THEN [val |-> InvalidPrim, err |-> err, parsed |-> FALSE]
    ELSE [val |-> prim, err |-> NilErr, parsed |-> FALSE]

GetBigmapInfoResult(err, info) ==
    IF err # NilErr
    THEN [val |-> Nil("BigmapInfo"), err |-> err, parsed |-> FALSE]
    ELSE [val |-> info, err |-> NilErr, parsed |-> FALSE]

\* ------------------------------------------------------------------ actions

\* A method body from its entry to its call of Get: it formats the path u,
\* creates its decode target and passes both to Get.  entry is the method the
\* caller called, fn the method whose body runs.
Begin(p, entry, fn, u, target) ==
    /\ pc[p] = "idle"
    /\ pc' = [pc EXCEPT ![p] = "inflight"]
    /\ call' = [call EXCEPT ![p] = entry]
    /\ frame' = [frame EXCEPT ![p] = [fn |-> fn, u |-> u, out |-> Local(p)]]
    /\ mem' = [mem EXCEPT ![Local(p)] = target]
    /\ gets' = [gets EXCEPT ![p] = Append(@, u)]
    /\ UNCHANGED <<resp, ret, cancelled, parsed, last>>

GetContractsBody(p, entry, id) ==
    Begin(p, entry, "GetContracts", GetContractsPath(id), ContractsVal(<<>>))

GetContractBalanceBody(p, entry, addr, id) ==
    Begin(p, entry, "GetContractBalance", GetContractBalancePath(id, addr), Str(<<>>))

GetContractStorageBody(p, entry, addr, id) ==
    Begin(p, entry, "GetContractStorage", GetContractStoragePath(id, addr), ZeroPrim)

GetBigmapKeysBody(p, entry, bigmap, id) ==
    Begin(p, entry, "GetBigmapKeys", GetBigmapKeysPath(id, bigmap), HashesVal(<<>>))

GetBigmapValueBody(p, entry, bigmap, hash, id) ==
    Begin(p, entry, "GetBigmapValue", GetBigmapValuePath(id, bigmap, hash), ZeroPrim)

GetBigmapInfoBody(p, entry, bigmap, id) ==
    Begin(p, entry, "GetBigmapInfo", GetBigmapInfoPath(id, bigmap),
          BigmapInfo(ZeroPrim, ZeroPrim, Zero64))

GetContracts(p, id) ==
    GetContractsBody(p, [m |-> "GetContracts", id |-> id], id)

\* GetContractsHeight with a fault: the height is dropped and head is queried.
GetContractsHeightAtHead(p, height) ==
    GetContractsBody(p, [m |-> "GetContractsHeight", height |-> height], Head_)

GetContractsHeight(p, height) ==
    GetContractsBody(p, [m |-> "GetContractsHeight", height |-> height], BlockLevel(height))

GetContractBalance(p, addr, id) ==
    GetContractBalanceBody(p, [m |-> "GetContractBalance", addr |-> addr, id |-> id], addr, id)

GetContractBalanceHeight(p, addr, height) ==
    GetContractBalanceBody(p, [m |-> "GetContractBalanceHeight", addr |-> addr,
                               height |-> height], addr, BlockLevel(height))

GetContractScript(p, addr) ==
    Begin(p, [m |-> "GetContractScript", addr |-> addr], "GetContractScript",
          GetContractScriptPath(addr), ScriptVal(""))

GetContractStorage(p, addr, id) ==
    GetContractStorageBody(p, [m |-> "GetContractStorage", addr |-> addr, id |-> id], addr, id)

GetContractStorageHeight(p, addr, height) ==
    GetContractStorageBody(p, [m |-> "GetContractStorageHeight", addr |-> addr,
                               height |-> height], addr, BlockLevel(height))

GetContractEntrypoints(p, addr) ==
    Begin(p, [m |-> "GetContractEntrypoints", addr |-> addr], "GetContractEntrypoints",
          GetContractEntrypointsPath(addr), EpType(Nil("map")))

GetBigmapKeys(p, bigmap, id) ==
    GetBigmapKeysBody(p, [m |-> "GetBigmapKeys", bigmap |-> bigmap, id |-> id], bigmap, id)

\* GetActiveBigmapKeys with a fault: the big-map id is passed as the block level.
GetActiveBigmapKeysAtLevel(p, bigmap) ==
    GetBigmapKeysBody(p, [m |-> "GetActiveBigmapKeys", bigmap |-> bigmap], bigmap,
                      BlockLevel(bigmap))

GetActiveBigmapKeys(p, bigmap) ==
    GetBigmapKeysBody(p, [m |-> "GetActiveBigmapKeys", bigmap |-> bigmap], bigmap, Head_)

GetBigmapValue(p, bigmap, hash, id) ==
    GetBigmapValueBody(p, [m |-> "GetBigmapValue", bigmap |-> bigmap, hash |-> hash,
                           id |-> id], bigmap, hash, id)

GetActiveBigmapValue(p, bigmap, hash) ==
    GetBigmapValueBody(p, [m |-> "GetActiveBigmapValue", bigmap |-> bigmap,
                           hash |-> hash], bigmap, hash, Head_)

GetBigmapValueHeight(p, bigmap, hash, height) ==
    GetBigmapValueBody(p, [m |-> "GetBigmapValueHeight", bigmap |-> bigmap, hash |-> hash,
                           height |-> height], bigmap, hash, BlockLevel(height))

GetActiveBigmapInfo(p, bigmap) ==
    GetBigmapInfoBody(p, [m |-> "GetActiveBigmapInfo", bigmap |-> bigmap], bigmap, Head_)

GetBigmapInfo(p, bigmap, id) ==
    GetBigmapInfoBody(p, [m |-> "GetBigmapInfo", bigmap |-> bigmap, id |-> id], bigmap, id)

\* What Client.Get may return for a target of kind k holding cur: with the
\* context cancelled the context's error; otherwise nil with a decoded body in
\* the target, or an error.  A failed Get leaves the target as it was or
\* partly written.
Outcomes(k, cur, ctxDone, bodies, errors) ==
    IF ctxDone
    THEN { [err |-> ErrCanceled, out |-> v] : v \in {cur} \cup Partial(k) }
    ELSE { [err |-> NilErr, out |-> v] : v \in bodies[k] }
         \cup { [err |-> e, out |-> v] : e \in errors, v \in {cur} \cup Partial(k) }

\* Client.Get completes caller p's request.
TransportGet(p, bodies, errors) ==
    /\ pc[p] = "inflight"
    /\ \E o \in Outcomes(mem[frame[p].out].k, mem[frame[p].out], cancelled[p], bodies, errors) :
          /\ mem' = [mem EXCEPT ![frame[p].out] = o.out]
          /\ resp' = [resp EXCEPT ![p] = [err |-> o.err, out |-> o.out,
                                          cancelled |-> cancelled[p]]]
    /\ pc' = [pc EXCEPT ![p] = "responded"]
    /\ UNCHANGED <<call, frame, ret, gets, cancelled, parsed, last>>

\* The caller cancels the context of its call.
Cancel(p) ==
    /\ pc[p] \in {"inflight", "responded"}
    /\ ~cancelled[p]
    /\ cancelled' = [cancelled EXCEPT ![p] = TRUE]
    /\ UNCHANGED <<pc, call, frame, mem, resp, ret, gets, parsed, last>>

\* The block-reference methods that have a height variant.
LevelMethods ==
    {"GetContracts", "GetContractBalance", "GetContractStorage", "GetBigmapValue"}

\* The method body fn returns r to caller p.
Finish(p, fn, r) ==
    /\ pc[p] = "responded"
    /\ frame[p].fn = fn
    /\ pc' = [pc EXCEPT ![p] = "returned"]
    /\ ret' = [ret EXCEPT ![p] = [val |-> r.val, err |-> r.err]]
    /\ parsed' = [parsed EXCEPT ![p] = r.parsed]
    /\ last' = IF call[p].m \in LevelMethods /\ call[p].id.kind = "level"
               THEN [call |-> call[p], gets |-> gets[p], resp |-> resp[p],
                     ret |-> [val |-> r.val, err |-> r.err]]
               ELSE last
    /\ UNCHANGED <<call, frame, mem, resp, gets, cancelled>>

GetContractsReturn(p) ==
    Finish(p, "GetContracts", GetContractsResult(resp[p].err, mem[Local(p)]))

GetContractBalanceReturn(p) ==
    Finish(p, "GetContractBalance", GetContractBalanceResult(resp[p].err, mem[Local(p)]))

GetContractScriptReturn(p) ==
    Finish(p, "GetContractScript", GetContractScriptResult(resp[p].err, mem[Local(p)]))

GetContractStorageReturn(p) ==
    Finish(p, "GetContractStorage", GetContractStorageResult(resp[p].err, mem[Local(p)]))

GetContractEntrypointsReturn(p) ==
    Finish(p, "GetContractEntrypoints",
           GetContractEntrypointsResult(resp[p].err, mem[Local(p)]))

GetBigmapKeysReturn(p) ==
    Finish(p, "GetBigmapKeys", GetBigmapKeysResult(resp[p].err, mem[Local(p)]))

GetBigmapValueReturn(p) ==
    Finish(p, "GetBigmapValue", GetBigmapValueResult(resp[p].err, mem[Local(p)]))

GetBigmapInfoReturn(p) ==
    Finish(p, "GetBigmapInfo", GetBigmapInfoResult(resp[p].err, mem[Local(p)]))

\* The caller takes the result; its next call starts from nothing.
Reset(p) ==
    /\ pc[p] = "returned"
    /\ pc' = [pc EXCEPT ![p] = "idle"]
    /\ call' = [call EXCEPT ![p] = NoCall]
    /\ frame' = [frame EXCEPT ![p] = NoFrame]
    /\ mem' = [mem EXCEPT ![Local(p)] = Nil("none")]
    /\ resp' = [resp EXCEPT ![p] = NoResp]
    /\ ret' = [ret EXCEPT ![p] = NoRet]
    /\ gets' = [gets EXCEPT ![p] = <<>>]
    /\ cancelled' = [cancelled EXCEPT ![p] = FALSE]
    /\ parsed' = [parsed EXCEPT ![p] = FALSE]
    /\ UNCHANGED last

\* One caller uses the client, with every method and every argument.
Next ==
    \/ \E id \in BlockIDs : GetContracts(1, id)
    \/ \E h \in Heights : GetContractsHeight(1, h)
    \/ \E a \in Addrs, id \in BlockIDs : GetContractBalance(1, a, id)
    \/ \E a \in Addrs, h \in Heights : GetContractBalanceHeight(1, a, h)
    \/ \E a \in Addrs : GetContractScript(1, a)
    \/ \E a \in Addrs, id \in BlockIDs : GetContractStorage(1, a, id)
    \/ \E a \in Addrs, h \in Heights : GetContractStorageHeight(1, a, h)
    \/ \E a \in Addrs : GetContractEntrypoints(1, a)
    \/ \E b \in Bigmaps, id \in BlockIDs : GetBigmapKeys(1, b, id)
    \/ \E b \in Bigmaps : GetActiveBigmapKeys(1, b)
    \/ \E b \in Bigmaps, x \in ExprHashes, id \in BlockIDs : GetBigmapValue(1, b, x, id)
    \/ \E b \in Bigmaps, x \in ExprHashes : GetActiveBigmapValue(1, b, x)
    \/ \E b \in Bigmaps, x \in ExprHashes, h \in Heights : GetBigmapValueHeight(1, b, x, h)
    \/ \E b \in Bigmaps : GetActiveBigmapInfo(1, b)
    \/ \E b \in Bigmaps, id \in BlockIDs : GetBigmapInfo(1, b, id)
    \/ TransportGet(1, AllBodies, LiveTransportErrors)
    \/ Cancel(1)
    \/ GetContractsReturn(1)
    \/ GetContractBalanceReturn(1)
    \/ GetContractScriptReturn(1)
    \/ GetContractStorageReturn(1)
    \/ GetContractEntrypointsReturn(1)
    \/ GetBigmapKeysReturn(1)
    \/ GetBigmapValueReturn(1)
    \/ GetBigmapInfoReturn(1)
    \/ Reset(1)

Spec == Init /\ [][Next]_vars

\* Several callers use the client at once: the balance and the big-map info
\* of head, over a node that answers with one of a few bodies or an error.
FewBodies ==
    [k \in Kinds |->
        IF k = "string" THEN { Str(Chars(<<4,2>>)), Str(<<"-">> \o Chars(<<7>>)) }
        ELSE Decoded(k)]

ConcNext ==
    \E p \in Callers :
        \/ \E a \in Addrs : GetContractBalance(p, a, Head_)
        \/ \E b \in Bigmaps : GetBigmapInfo(p, b, Head_)
        \/ TransportGet(p, FewBodies, {[k |-> "transport", e |-> "status 404"]})
        \/ GetContractBalanceReturn(p)
        \/ GetBigmapInfoReturn(p)
        \/ Reset(p)

ConcSpec == Init /\ [][ConcNext]_vars

\* ------------------------------------------------------------- properties

Returned(p) == pc[p] = "returned"

\* The zero value or sentinel of the result type of method body fn.
ZeroOf(fn) ==
    CASE fn = "GetContracts"           -> Nil("Contracts")
      [] fn = "GetContractBalance"     -> Zero64
      [] fn = "GetContractScript"      -> Nil("Script")
      [] fn = "GetContractStorage"     -> InvalidPrim
      [] fn = "GetContractEntrypoints" -> Nil("map")
      [] fn = "GetBigmapKeys"          -> Nil("ExprHashes")
      [] fn = "GetBigmapValue"         -> InvalidPrim
      [] fn = "GetBigmapInfo"          -> Nil("BigmapInfo")

\* The base-10 integers of 64 bits, as strings: an optional sign, one digit or
\* more, and a value from -(1<<63) to (1<<63)-1.
Unsigned(s) == IF s # <<>> /\ s[1] \in {"+", "-"} THEN Tail(s) ELSE s

Magnitude(s) == StripZeros([i \in 1..Len(Unsigned(s)) |-> DigitVal(Unsigned(s)[i])])

IsInt64Literal(s) ==
    /\ Unsigned(s) # <<>>
    /\ \A i \in 1..Len(Unsigned(s)) : IsDigit(Unsigned(s)[i])
    /\ IF s[1] = "-" THEN ~MagLess(Cutoff64, Magnitude(s))
                     ELSE MagLess(Magnitude(s), Cutoff64)

LiteralValue(s) == Int64(s[1] = "-", Magnitude(s))

IsParseError(e, s) == e \in { NumError("ParseInt", s, c) : c \in {"ErrSyntax", "ErrRange"} }

\* C1: GetContractBalance returns the base-10 integer parse of the string Get
\* decoded, and whenever that parse fails it returns the parse error together
\* with a balance of exactly 0.
C1_BalanceIsParseOrZero ==
    \A p \in Callers :
        (Returned(p) /\ frame[p].fn = "GetContractBalance" /\ resp[p].err = NilErr) =>
            IF IsInt64Literal(resp[p].out.v)
            THEN ret[p] = [val |-> LiteralValue(resp[p].out.v), err |-> NilErr]
            ELSE IsParseError(ret[p].err, resp[p].out.v) /\ ret[p].val = Zero64

C3_ZeroResultWithError ==
    \A p \in Callers :
        (Returned(p) /\ ret[p].err # NilErr) => ret[p].val = ZeroOf(frame[p].fn)

\* C4: a call returns a non-nil error exactly when Get returned an error or,
\* for GetContractBalance, when the balance string is no 64 bit integer; the
\* error is Get's error, or ParseInt's, as it was; and after an error of Get
\* the parse is not attempted.
C4_ErrorExactlyAndVerbatim ==
    \A p \in Callers :
        Returned(p) =>
            /\ resp[p].err # NilErr => (ret[p].err = resp[p].err /\ ~parsed[p])
            /\ (resp[p].err = NilErr /\ frame[p].fn # "GetContractBalance") =>
                   ret[p].err = NilErr
            /\ (resp[p].err = NilErr /\ frame[p].fn = "GetContractBalance") =>
                   /\ parsed[p]
                   /\ IF IsInt64Literal(resp[p].out.v)
                      THEN ret[p].err = NilErr
                      ELSE IsParseError(ret[p].err, resp[p].out.v)

C4_Witness ==
    /\ Returned(1)
    /\ frame[1].fn = "GetContractBalance"
    /\ resp[1].err \in LiveTransportErrors
    /\ ret[1].err = resp[1].err
    /\ ~parsed[1]

\* The height variant of each block-reference method.
HeightMethodOf ==
    [m \in LevelMethods |->
        CASE m = "GetContracts"       -> "GetContractsHeight"
          [] m = "GetContractBalance" -> "GetContractBalanceHeight"
          [] m = "GetContractStorage" -> "GetContractStorageHeight"
          [] m = "GetBigmapValue"     -> "GetBigmapValueHeight"]

\* The arguments of a call besides its block reference or height.
OtherArgs(c) ==
    [addr   |-> IF "addr" \in DOMAIN c THEN AddrString(c.addr) ELSE "",
     bigmap |-> IF "bigmap" \in DOMAIN c THEN c.bigmap ELSE 0,
     hash   |-> IF "hash" \in DOMAIN c THEN c.hash ELSE ""]

\* Call c is the height variant, at height h, of the completed call d.
IsHeightVariantOf(c, d) ==
    /\ d.m \in LevelMethods
    /\ c.m = HeightMethodOf[d.m]
    /\ d.id = BlockLevel(c.height)
    /\ OtherArgs(c) = OtherArgs(d)

\* C5: a height-relative method issues the same request path and returns the
\* same result and error as its block-reference method called with
\* BlockLevel(h) and the same other arguments, given the same transport
\* response.
C5_HeightSameAsBlockLevel ==
    \A p \in Callers :
        (/\ Returned(p)
         /\ IsHeightVariantOf(call[p], last.call)
         /\ resp[p].err = last.resp.err
         /\ resp[p].out = last.resp.out) =>
            /\ gets[p] = last.gets
            /\ ret[p] = last.ret

C5_Witness ==
    /\ Returned(1)
    /\ call[1].m = "GetContractBalanceHeight"
    /\ call[1].height = 105
    /\ IsHeightVariantOf(call[1], last.call)
    /\ resp[1].err = NilErr
    /\ resp[1].out = last.resp.out
    /\ ret[1] = last.ret

HeadMethods ==
    {"GetActiveBigmapKeys", "GetActiveBigmapValue", "GetActiveBigmapInfo",
     "GetContractScript", "GetContractEntrypoints"}

\* C6: every request of a head-relative method has the block segment "head",
\* whatever its address, big-map id and key hash.
C6_HeadSegment ==
    \A p \in Callers :
        call[p].m \in HeadMethods =>
            /\ gets[p] # <<>>
            /\ \A i \in 1..Len(gets[p]) :
                  /\ SubSeq(gets[p][i], 1, 3) = <<"chains", "main", "blocks">>
                  /\ gets[p][i][4] = "head"

C6_Witness ==
    /\ pc[1] = "inflight"
    /\ call[1] = [m |-> "GetActiveBigmapKeys", bigmap |-> 42]
    /\ gets[1][1][4] = "head"

\* C7: when Get succeeds, GetContractEntrypoints returns exactly the mapping
\* decoded under the wrapper's "entrypoints" field: the same keys and the same
\* value for each key.
C7_EntrypointsExact ==
    \A p \in Callers :
        (Returned(p) /\ frame[p].fn = "GetContractEntrypoints" /\ resp[p].err = NilErr) =>
            /\ ret[p].err = NilErr
            /\ ret[p].val.k = resp[p].out.Entrypoints.k
            /\ ret[p].val.k = "map" =>
                  /\ DOMAIN ret[p].val.v = DOMAIN resp[p].out.Entrypoints.v
                  /\ \A n \in DOMAIN ret[p].val.v :
                        ret[p].val.v[n] = resp[p].out.Entrypoints.v[n]

C7_Witness ==
    /\ Returned(1)
    /\ frame[1].fn = "GetContractEntrypoints"
    /\ resp[1].err = NilErr
    /\ ret[1].val.k = "map"
    /\ DOMAIN ret[1].val.v = {"default", "mint"}

\* The block segment a call's path is to carry.
BlockSegment(c) ==
    IF c.m \in HeadMethods THEN "head"
    ELSE IF "height" \in DOMAIN c THEN FormatInt(c.height)
    ELSE BlockIDString(c.id)

\* The produced path of each call: the path template of its method with the
\* block, the address, the big-map id and the key hash of the call.
ProducedPath(c) ==
    LET pre == <<"chains", "main", "blocks", BlockSegment(c), "context">>
        a   == OtherArgs(c)
        big == <<"raw", "json", "big_maps", "index", FormatInt(a.bigmap)>>
    IN  CASE c.m \in {"GetContracts", "GetContractsHeight"} ->
                pre \o <<"contracts">>
          [] c.m \in {"GetContractBalance", "GetContractBalanceHeight"} ->
                pre \o <<"contracts", a.addr, "balance">>
          [] c.m = "GetContractScript" ->
                pre \o <<"contracts", a.addr, "script">>
          [] c.m \in {"GetContractStorage", "GetContractStorageHeight"} ->
                pre \o <<"contracts", a.addr, "storage">>
          [] c.m = "GetContractEntrypoints" ->
                pre \o <<"contracts", a.addr, "entrypoints">>
          [] c.m \in {"GetBigmapKeys", "GetActiveBigmapKeys"} ->
                pre \o big \o <<"contents">>
          [] c.m \in {"GetBigmapValue", "GetActiveBigmapValue", "GetBigmapValueHeight"} ->
                pre \o big \o <<"contents", a.hash>>
          [] c.m \in {"GetBigmapInfo", "GetActiveBigmapInfo"} ->
                pre \o big

\* C8: every call, failed or not, makes exactly one Get, and its path is the
\* produced path of the call.
C8_ExactlyOneGet ==
    \A p \in Callers :
        /\ pc[p] = "idle" => gets[p] = <<>>
        /\ pc[p] # "idle" => gets[p] = <<ProducedPath(call[p])>>

C8_Witness ==
    /\ Returned(1)
    /\ call[1].m = "GetBigmapValueHeight"
    /\ call[1].height = 105
    /\ ret[1].err # NilErr
    /\ Len(gets[1]) = 1
    /\ gets[1][1][4] = "105"
    /\ Len(gets[1][1]) = 12

\* C9: a call whose context was cancelled before Get completed returns a
\* non-nil error and the zero value or sentinel of its type, whatever Get had
\* written to the decode target.
C9_CancelledCallFails ==
    \A p \in Callers :
        (Returned(p) /\ resp[p].cancelled) =>
            /\ ret[p].err # NilErr
            /\ ret[p].val = ZeroOf(frame[p].fn)

C9_Witness ==
    /\ Returned(1)
    /\ frame[1].fn = "GetBigmapKeys"
    /\ resp[1].cancelled
    /\ resp[1].out = HashesVal(<<"exprtXBtx">>)
    /\ ret[1] = [val |-> Nil("ExprHashes"), err |-> ErrCanceled]

\* C10: under every interleaving of concurrent calls, no call touches the
\* decode target of another, and what a call requests and returns is a function
\* of its own arguments and of the response to its own request.
C10_CallsIndependent ==
    /\ \A p \in Callers :
          pc[p] = "responded" => mem[frame[p].out] = resp[p].out
    /\ \A p, q \in Callers :
          (p # q /\ pc[p] # "idle" /\ pc[q] # "idle") => frame[p].out # frame[q].out
    /\ \A p, q \in Callers :
          (/\ Returned(p) /\ Returned(q)
           /\ call[p] = call[q]
           /\ resp[p].err = resp[q].err
           /\ resp[p].out = resp[q].out) =>
              /\ ret[p] = ret[q]
              /\ gets[p] = gets[q]
    /\ \A p \in Callers :
          pc[p] # "idle" => gets[p] = <<ProducedPath(call[p])>>

C10_Witness ==
    /\ pc[1] = "responded"
    /\ pc[2] = "responded"
    /\ frame[1].fn = "GetContractBalance"
    /\ frame[2].fn = "GetContractBalance"
    /\ resp[1].err = NilErr
    /\ resp[2].err = NilErr
    /\ resp[1].out # resp[2].out
    /\ mem[1] # mem[2]

====
